---- MODULE Spec2Model ----
(***************************************************************************)
(* State-machine model of the Modbus master backend:                       *)
(*   backend/request_queue.py      RequestStats, ModbusRequest,            *)
(*                                 RequestQueue                            *)
(*   backend/modbus_handler.py     ModbusHandler (connect, disconnect,     *)
(*                                 send_request, start_polling,            *)
(*                                 _polling_worker, stop_polling)          *)
(*   backend/connection_manager.py ConnectionManager                       *)
(*                                                                         *)
(* Threads of the handler: thread 0 is the caller of the handler's public  *)
(* methods (one call at a time), threads 1..MaxStarts are the polling      *)
(* workers, one spawned by each start_polling call.                        *)
(*                                                                         *)
(* ModbusRequest.stats defaults to ONE RequestStats object built when the  *)
(* class body runs (request_queue.py:26); every request constructed        *)
(* without an explicit stats argument (main.py:97-107, 127-137) refers to  *)
(* that same object.  (Interpreters that reject such a default refuse to   *)
(* import the module at all; the model describes the program that runs.)   *)
(***************************************************************************)
EXTENDS Integers, Sequences, FiniteSets, TLC

\* ---------------------------------------------------------------- bounds
\* start_polling calls in one run (each spawns one worker thread)
MaxStarts == 2
\* transactions that reach the transport in one run (caps the counters)
MaxTx == 4
\* largest batch-level cycle count passed to start_polling / add_request
MaxCycles == 2
\* calls of the handler's public methods made by the caller in one run
MaxCalls == 3
\* longest batch passed to start_polling
MaxBatch == 2
\* longest queue built by the client of a lone RequestQueue
MaxQueue == 4
\* client threads of the ConnectionManager
MaxCMThreads == 3
\* threads that take the handler's lock and the queue's lock
MaxLockThreads == 3
MaxApiCalls == 1

\* ------------------------------------------------------- request objects
\* Optional[int]: None is the empty sequence, a value n is <<n>>.
None == <<>>
Some(n) == <<n>>

Requests == {"r1", "r2"}
NoRequest == "none"

\* The ModbusRequest objects handed to the handler: name, order key and the
\* request's own cycles field (request_queue.py:14-26).
Pool ==
  [r \in Requests |->
     CASE r = "r1" -> [name |-> "A", order |-> 2, cycles |-> None]
       [] r = "r2" -> [name |-> "B", order |-> 0, cycles |-> Some(2)]]

Names == {Pool[r].name : r \in Requests}

\* The RequestStats objects: the class-level default that every request built
\* without a stats argument refers to, and one per request for a caller that
\* passes its own.
DefaultStats == "RequestStats@class"
StatsObjects == {DefaultStats} \cup Requests
\* request.stats of the requests built by main.py: the default object.
StatsRef(r) == DefaultStats

NewStats == [total |-> 0, completed |-> 0, timeouts |-> 0, errors |-> 0,
             remaining |-> 0]

CycleArgs == {None} \cup {Some(n) : n \in 0..MaxCycles}

RECURSIVE AllDistinct(_)
AllDistinct(s) ==
  IF Len(s) <= 1 THEN TRUE
  ELSE /\ \A i \in 2..Len(s) : s[i] # s[1]
       /\ AllDistinct(Tail(s))

\* Batches of distinct requests, in any order.
Batches ==
  UNION {{s \in [1..n -> Requests] : AllDistinct(s)} : n \in 1..MaxBatch}

VARIABLES
  \* ---- ModbusHandler fields
  serial,          \* self.serial: "None" | "open" | "closed"
  tcp_socket,      \* self.tcp_socket: "None" | "connected" | "unconnected"
                   \*   (a socket whose connect failed) | "broken" (a socket
                   \*   whose peer or link is gone)
  lock,            \* self._lock: the set of threads holding it ({} or {t})
  polling_thread,  \* self._polling_thread: 0 (None) or a worker id
  queue,           \* self.request_queue._queue
  stop_event,      \* self.request_queue._stop_polling.is_set()
  stats,           \* the RequestStats objects
  \* ---- threads
  pc,              \* position of every handler thread
  req,             \* the request a thread is working on
  started,         \* start_polling calls made so far
  calls,           \* public-method calls made so far
  \* ---- history of the run (read by the properties only)
  batch,           \* arguments of the latest start_polling
  cycles,
  execLog,         \* requests drawn by workers in the first cycle of the session
  consec,          \* consecutive failed worker transactions of the session
  log_calls,       \* save_exchange_log invocations so far
  discRun,         \* disconnect calls made in a row by the caller, up to now
  qAdded,          \* per name: instances the queue's client asked to enqueue
  qPopped,         \* per name: instances it popped
  qLast,           \* arguments of the latest add_request of that client
  \* ---- ConnectionManager fields and client threads
  cm_serial, cm_tcp, cm_is_connected, cm_lock, cm_pc, cm_ret,
  \* ---- one request through _prepare_request and _parse_response
  f_kind,          \* transport the frame is built for: "serial" | "tcp"
  f_req,           \* the ModbusRequest
  f_frame,         \* bytes returned by _prepare_request
  f_resp,          \* bytes received from the device
  f_result,        \* what send_request made of them
  \* ---- the two locks and the threads that take them
  l_pc,            \* position of every such thread
  l_tlock,         \* holders of ModbusHandler._lock
  l_qlock,         \* holders of RequestQueue._lock
  \* ---- main.py: the endpoints, run one at a time by the event loop
  api_pc,          \* where the endpoint being served is
  api_thread,      \* the global polling_thread: "None" | "alive" | "finished"
  is_polling       \* polling_status["is_polling"]

handlerVars == <<serial, tcp_socket, lock, polling_thread, queue, stop_event,
                 stats, pc, req, started, calls, batch, cycles, execLog, consec,
                 log_calls, discRun>>
harnessVars == <<qAdded, qPopped, qLast>>
cmVars == <<cm_serial, cm_tcp, cm_is_connected, cm_lock, cm_pc, cm_ret>>
codecVars == <<f_kind, f_req, f_frame, f_resp, f_result>>
lockVars == <<l_pc, l_tlock, l_qlock>>
apiVars == <<api_pc, api_thread, is_polling>>
vars == <<handlerVars, harnessVars, cmVars, codecVars, lockVars, apiVars>>

Workers == 1..MaxStarts
Threads == 0..MaxStarts
CMThreads == 1..MaxCMThreads
LockThreads == 1..MaxLockThreads

\* ------------------------------------------------------------ RequestQueue
Repeat(x, n) == [i \in 1..n |-> x]

\* request.cycles if request.cycles is not None else cycles
EffectiveCycles(r, c) == IF Pool[r].cycles # None THEN Pool[r].cycles ELSE c

IsFinite(rc) == rc # None /\ rc[1] > 0

\* add_request with the multiplication by request_cycles left out: one instance
\* whatever the count.
add_request_single(q, st, r, c) ==
  LET rc == EffectiveCycles(r, c)
      s == StatsRef(r)
  IN IF IsFinite(rc)
     THEN [queue |-> Append(q, r),
           stats |-> [st EXCEPT ![s].total = rc[1], ![s].remaining = rc[1]]]
     ELSE [queue |-> Append(q, r),
           stats |-> [st EXCEPT ![s].total = 0, ![s].remaining = 0]]

\* RequestQueue.add_request: the new queue and the new stats objects.
add_request(q, st, r, c) ==
  LET rc == EffectiveCycles(r, c)
      s == StatsRef(r)
  IN IF IsFinite(rc)
     THEN [queue |-> q \o Repeat(r, rc[1]),
           stats |-> [st EXCEPT ![s].total = rc[1], ![s].remaining = rc[1]]]
     ELSE [queue |-> Append(q, r),
           stats |-> [st EXCEPT ![s].total = 0, ![s].remaining = 0]]

\* RequestQueue.get_next_request: the popped request (or none) and the rest.
get_next_request(q) ==
  IF q # <<>> THEN [request |-> Head(q), queue |-> Tail(q)]
  ELSE [request |-> NoRequest, queue |-> q]

\* RequestQueue.get_remaining_count
get_remaining_count(q, name) ==
  Cardinality({i \in DOMAIN q : Pool[q[i]].name = name})

\* RequestQueue.clear
clear(q) == <<>>

\* ModbusHandler.start_polling, lines 233-234: add every request of the batch.
RECURSIVE AddAll(_, _, _, _)
AddAll(q, st, b, c) ==
  IF b = <<>> THEN [queue |-> q, stats |-> st]
  ELSE LET one == add_request(q, st, Head(b), c)
       IN AddAll(one.queue, one.stats, Tail(b), c)

\* Nothing built, nothing parsed yet.
NoFrame == [slave_id |-> 0, function |-> 0, start_address |-> 0, count |-> 0,
            data |-> <<>>]
NoResult == [outcome |-> "none", values |-> <<>>]

\* ------------------------------------------------------------------- Init
Init ==
  /\ serial = "None"
  /\ tcp_socket = "None"
  /\ lock = {}
  /\ polling_thread = 0
  /\ queue = <<>>
  /\ stop_event = FALSE
  /\ stats = [s \in StatsObjects |-> NewStats]
  /\ pc = [t \in Threads |-> IF t = 0 THEN "idle" ELSE "unborn"]
  /\ req = [t \in Threads |-> NoRequest]
  /\ started = 0
  /\ calls = 0
  /\ batch = <<>>
  /\ cycles = None
  /\ execLog = <<>>
  /\ consec = 0
  /\ log_calls = 0
  /\ discRun = 0
  /\ qAdded = [n \in Names |-> 0]
  /\ qPopped = [n \in Names |-> 0]
  /\ qLast = <<>>
  /\ cm_serial = "None"
  /\ cm_tcp = "None"
  /\ cm_is_connected = FALSE
  /\ cm_lock = {}
  /\ cm_pc = [t \in CMThreads |-> "idle"]
  /\ cm_ret = [t \in CMThreads |-> "caller"]
  /\ f_kind = "serial"
  /\ f_req = NoFrame
  /\ f_frame = <<>>
  /\ f_resp = <<>>
  /\ f_result = NoResult
  /\ l_pc = [t \in LockThreads |-> "idle"]
  /\ l_tlock = {}
  /\ l_qlock = {}
  /\ api_pc = "idle"
  /\ api_thread = "None"
  /\ is_polling = FALSE

\* ------------------------------------------------------- ModbusHandler
RECURSIVE SumTx(_, _)
SumTx(st, S) ==
  IF S = {} THEN 0
  ELSE LET s == CHOOSE x \in S : TRUE
       IN st[s].completed + st[s].timeouts + st[s].errors + SumTx(st, S \ {s})

\* transactions counted so far by all counters
TxCount == SumTx(stats, StatsObjects)

Alive(w) == pc[w] \notin {"unborn", "exited"}

\* send_request line 86: (self.serial and self.serial.is_open) or self.tcp_socket
Connected == serial = "open" \/ tcp_socket # "None"

\* _send_and_receive lines 212-217: the socket is used when there is one, the
\* serial port otherwise; only an open transport can deliver a response.
TransportLive ==
  IF tcp_socket # "None" THEN tcp_socket = "connected" ELSE serial = "open"

\* ModbusHandler.connect: kind is settings.connection_type, ok whether the
\* open succeeded.  No lock is taken.
connect(kind, ok) ==
  /\ pc[0] = "idle"
  /\ calls < MaxCalls
  /\ calls' = calls + 1
  /\ discRun' = 0
  /\ IF kind = "tcp"
     THEN /\ tcp_socket' = IF ok THEN "connected" ELSE "unconnected"
          /\ UNCHANGED serial
     ELSE /\ serial' = IF ok THEN "open"
                       ELSE IF serial = "open" THEN "closed" ELSE serial
          /\ UNCHANGED tcp_socket
  /\ UNCHANGED <<lock, polling_thread, queue, stop_event, stats, pc, req,
                 started, batch, cycles, execLog, consec>>
  /\ UNCHANGED <<log_calls, harnessVars, cmVars, codecVars, lockVars, apiVars>>

\* disconnect with lines 80-81 left out: the serial port is closed, the socket
\* is kept.
disconnect_serial_only ==
  /\ pc[0] = "idle"
  /\ calls < MaxCalls
  /\ calls' = calls + 1
  /\ discRun' = discRun + 1
  /\ serial' = IF serial = "open" THEN "closed" ELSE serial
  /\ UNCHANGED <<tcp_socket, lock, polling_thread, queue, stop_event, stats,
                 pc, req, started, batch, cycles, execLog, consec>>
  /\ UNCHANGED <<log_calls, harnessVars, cmVars, codecVars, lockVars, apiVars>>

\* ModbusHandler.disconnect.  No lock is taken, polling is not touched.
disconnect ==
  /\ pc[0] = "idle"
  /\ calls < MaxCalls
  /\ calls' = calls + 1
  /\ discRun' = discRun + 1
  /\ serial' = IF serial = "open" THEN "closed" ELSE serial
  /\ tcp_socket' = "None"
  /\ UNCHANGED <<lock, polling_thread, queue, stop_event, stats, pc, req,
                 started, batch, cycles, execLog, consec>>
  /\ UNCHANGED <<log_calls, harnessVars, cmVars, codecVars, lockVars, apiVars>>

\* Where a thread goes when send_request returns.
AfterSend(t) == IF t = 0 THEN "idle" ELSE "requeue"

\* The caller invokes send_request(r) directly.
send_request_call(r) ==
  /\ pc[0] = "idle"
  /\ calls < MaxCalls
  /\ calls' = calls + 1
  /\ discRun' = 0
  /\ pc' = [pc EXCEPT ![0] = "send"]
  /\ req' = [req EXCEPT ![0] = r]
  /\ UNCHANGED <<serial, tcp_socket, lock, polling_thread, queue, stop_event,
                 stats, started, batch, cycles, execLog, consec>>
  /\ UNCHANGED <<log_calls, harnessVars, cmVars, codecVars, lockVars, apiVars>>

\* send_request lines 84-93 up to the write of the frame: take the lock, return
\* "Not connected" at once, or build the frame and send it.  A connected
\* thread waits here once MaxTx transactions have been counted.
send_request_enter(t) ==
  /\ pc[t] = "send"
  /\ lock = {}
  /\ IF ~Connected
     THEN /\ pc' = [pc EXCEPT ![t] = AfterSend(t)]
          /\ req' = [req EXCEPT ![t] = IF t = 0 THEN NoRequest ELSE @]
          /\ UNCHANGED lock
     ELSE /\ TxCount < MaxTx
          /\ lock' = {t}
          /\ pc' = [pc EXCEPT ![t] = "inflight"]
          /\ UNCHANGED req
  /\ UNCHANGED <<serial, tcp_socket, polling_thread, queue, stop_event, stats,
                 started, batch, cycles, execLog, consec>>
  /\ UNCHANGED <<calls, log_calls, discRun, harnessVars, cmVars, codecVars, lockVars, apiVars>>

\* consecutive failures after which a session is to stop
Threshold == 3

Outcomes ==
  {"timeout", "io_error", "parse_error", "raised", "ok", "ok_log_raises"}

\* send_request lines 95-167: the counters after the outcome of the exchange.
\*   timeout        no response (or a dead transport raised)     lines 95-109
\*   io_error       the live transport raised in _send_and_receive,
\*                  which returns None: counted as a timeout     lines 95-109
\*   ok             response parsed, both log files written      lines 111-135
\*   ok_log_raises  response parsed, completed counted, then
\*                  save_exchange_log/save_port_data raised      lines 114-152
\*   parse_error    _parse_response raised                       lines 137-152
\*   raised         _prepare_request (or anything else inside the
\*                  outer try) raised                            lines 154-167
CountOutcome(st, r, outcome, q) ==
  LET s == StatsRef(r)
      rem == get_remaining_count(q, Pool[r].name)
  IN CASE outcome \in {"timeout", "io_error"} ->
            [st EXCEPT ![s].timeouts = @ + 1, ![s].remaining = rem]
       [] outcome = "ok" ->
            [st EXCEPT ![s].completed = @ + 1, ![s].remaining = rem]
       [] outcome = "ok_log_raises" ->
            [st EXCEPT ![s].completed = @ + 1, ![s].errors = @ + 1,
                       ![s].remaining = rem]
       [] outcome \in {"parse_error", "raised"} ->
            [st EXCEPT ![s].errors = @ + 1, ![s].remaining = rem]

\* send_request from the read of the response to the release of the lock.
send_request_finish(t, outcome) ==
  /\ pc[t] = "inflight"
  /\ outcome \notin {"timeout", "raised"} => TransportLive
  /\ stats' = CountOutcome(stats, req[t], outcome, queue)
  /\ lock' = {}
  /\ pc' = [pc EXCEPT ![t] = AfterSend(t)]
  /\ req' = [req EXCEPT ![t] = IF t = 0 THEN NoRequest ELSE @]
  /\ consec' = IF t = 0 THEN consec
               ELSE IF outcome = "ok" THEN 0
               ELSE IF consec < Threshold THEN consec + 1 ELSE consec
  /\ tcp_socket' = IF outcome = "io_error" /\ tcp_socket = "connected"
                   THEN "broken" ELSE tcp_socket
  /\ log_calls' = IF outcome \in {"ok", "ok_log_raises"}
                  THEN log_calls + 1 ELSE log_calls
  /\ UNCHANGED <<serial, polling_thread, queue, stop_event,
                 started, batch, cycles, execLog>>
  /\ UNCHANGED <<calls, discRun, harnessVars, cmVars, codecVars, lockVars, apiVars>>

\* ModbusHandler.start_polling, taken as one step: a new RequestQueue replaces
\* the old one, the batch is added in the order given, a new worker thread is
\* started.  The previous worker, if any, is neither stopped nor joined; it
\* reads self.request_queue afresh at every use, so it goes on with the new
\* queue and the new stop event.
start_polling(b, c) ==
  /\ pc[0] = "idle"
  /\ calls < MaxCalls
  /\ calls' = calls + 1
  /\ discRun' = 0
  /\ started < MaxStarts
  /\ LET filled == AddAll(<<>>, stats, b, c)
         w == started + 1
     IN /\ queue' = filled.queue
        /\ stats' = filled.stats
        /\ stop_event' = FALSE
        /\ polling_thread' = w
        /\ started' = w
        /\ pc' = [pc EXCEPT ![w] = "loop"]
  /\ batch' = b
  /\ cycles' = c
  /\ execLog' = <<>>
  /\ consec' = 0
  /\ UNCHANGED <<serial, tcp_socket, lock, req>>
  /\ UNCHANGED <<log_calls, harnessVars, cmVars, codecVars, lockVars, apiVars>>

\* The worker's except branch (lines 259-262) is not modelled: send_request
\* catches every exception itself, and add_request and the delay comparison do
\* not raise for requests built as main.py builds them.

\* The loop test with a circuit breaker added: the worker also leaves the loop
\* after Threshold consecutive failed transactions.
worker_loop_breaker(w) ==
  /\ pc[w] = "loop"
  /\ pc' = [pc EXCEPT ![w] = IF stop_event \/ consec >= Threshold
                             THEN "exited" ELSE "next"]
  /\ req' = [req EXCEPT ![w] = NoRequest]
  /\ UNCHANGED <<serial, tcp_socket, lock, polling_thread, queue, stop_event,
                 stats, started, batch, cycles, execLog, consec>>
  /\ UNCHANGED <<calls, log_calls, discRun, harnessVars, cmVars, codecVars, lockVars, apiVars>>

\* _polling_worker line 240: while not self.request_queue.should_stop()
worker_loop(w) ==
  /\ pc[w] = "loop"
  /\ pc' = [pc EXCEPT ![w] = IF stop_event THEN "exited" ELSE "next"]
  /\ req' = [req EXCEPT ![w] = NoRequest]
  /\ UNCHANGED <<serial, tcp_socket, lock, polling_thread, queue, stop_event,
                 stats, started, batch, cycles, execLog, consec>>
  /\ UNCHANGED <<calls, log_calls, discRun, harnessVars, cmVars, codecVars, lockVars, apiVars>>

\* _polling_worker lines 241-245: draw the next instance; when the queue is
\* empty, sleep for the interval (the stop event is not looked at here) and go
\* back to the loop top.  The interval is taken to be positive.
worker_next(w) ==
  /\ pc[w] = "next"
  /\ LET got == get_next_request(queue)
     IN IF got.request = NoRequest
        THEN /\ pc' = [pc EXCEPT ![w] = "sleep"]
             /\ UNCHANGED <<queue, req, execLog>>
        ELSE /\ queue' = got.queue
             /\ req' = [req EXCEPT ![w] = got.request]
             /\ pc' = [pc EXCEPT ![w] = "send"]
             /\ execLog' = IF Len(execLog) < Len(batch)
                           THEN Append(execLog, got.request) ELSE execLog
  /\ UNCHANGED <<serial, tcp_socket, lock, polling_thread, stop_event, stats,
                 started, batch, cycles, consec>>
  /\ UNCHANGED <<calls, log_calls, discRun, harnessVars, cmVars, codecVars, lockVars, apiVars>>

\* _polling_worker lines 252-254: if request.stats.total == 0, add the request
\* back (add_request with its default cycles=None).
worker_requeue(w) ==
  /\ pc[w] = "requeue"
  /\ LET again == add_request(queue, stats, req[w], None)
     IN IF stats[StatsRef(req[w])].total = 0
        THEN queue' = again.queue /\ stats' = again.stats
        ELSE UNCHANGED <<queue, stats>>
  /\ pc' = [pc EXCEPT ![w] = "wait"]
  /\ UNCHANGED <<serial, tcp_socket, lock, polling_thread, stop_event, req,
                 started, batch, cycles, execLog, consec>>
  /\ UNCHANGED <<calls, log_calls, discRun, harnessVars, cmVars, codecVars, lockVars, apiVars>>

\* _polling_worker lines 256-257 and 264-265: the delay-after sleep and the
\* interval sleep, taken as one: the worker sleeps unless the stop event is
\* set, in which case it goes back to the loop top at once.  delay_after
\* (default 100000, request_queue.py:24) and the interval are positive.
worker_wait(w) ==
  /\ pc[w] = "wait"
  /\ pc' = [pc EXCEPT ![w] = IF stop_event THEN "loop" ELSE "sleep"]
  /\ UNCHANGED <<serial, tcp_socket, lock, polling_thread, queue, stop_event,
                 stats, req, started, batch, cycles, execLog, consec>>
  /\ UNCHANGED <<calls, log_calls, discRun, harnessVars, cmVars, codecVars, lockVars, apiVars>>

\* time.sleep returns (lines 244, 257, 265): back to the loop top.
worker_wake(w) ==
  /\ pc[w] = "sleep"
  /\ pc' = [pc EXCEPT ![w] = "loop"]
  /\ UNCHANGED <<serial, tcp_socket, lock, polling_thread, queue, stop_event,
                 stats, req, started, batch, cycles, execLog, consec>>
  /\ UNCHANGED <<calls, log_calls, discRun, harnessVars, cmVars, codecVars, lockVars, apiVars>>

\* stop_polling line 269: self.request_queue.stop()
stop_polling_stop ==
  /\ pc[0] = "idle"
  /\ calls < MaxCalls
  /\ calls' = calls + 1
  /\ discRun' = 0
  /\ stop_event' = TRUE
  /\ pc' = [pc EXCEPT ![0] = "join"]
  /\ UNCHANGED <<serial, tcp_socket, lock, polling_thread, queue, stats, req,
                 started, batch, cycles, execLog, consec>>
  /\ UNCHANGED <<log_calls, harnessVars, cmVars, codecVars, lockVars, apiVars>>

\* stop_polling lines 270-272: join self._polling_thread (the thread of the
\* latest start_polling only), clear the queue, return.
stop_polling_return ==
  /\ pc[0] = "join"
  /\ polling_thread # 0 => ~Alive(polling_thread)
  /\ queue' = clear(queue)
  /\ pc' = [pc EXCEPT ![0] = "idle"]
  /\ UNCHANGED <<serial, tcp_socket, lock, polling_thread, stop_event, stats,
                 req, started, batch, cycles, execLog, consec>>
  /\ UNCHANGED <<calls, log_calls, discRun, harnessVars, cmVars, codecVars, lockVars, apiVars>>

Next ==
  \/ \E kind \in {"serial", "tcp"}, ok \in BOOLEAN : connect(kind, ok)
  \/ disconnect
  \/ \E r \in Requests : send_request_call(r)
  \/ \E t \in Threads : send_request_enter(t)
  \/ \E t \in Threads, o \in Outcomes : send_request_finish(t, o)
  \/ \E b \in Batches, c \in CycleArgs : start_polling(b, c)
  \/ \E w \in Workers : worker_loop(w)
  \/ \E w \in Workers : worker_next(w)
  \/ \E w \in Workers : worker_requeue(w)
  \/ \E w \in Workers : worker_wait(w)
  \/ \E w \in Workers : worker_wake(w)
  \/ stop_polling_stop
  \/ stop_polling_return

Spec == Init /\ [][Next]_vars

\* ------------------------------------------- RequestQueue on its own
\* A client of one RequestQueue that adds requests and pops.  For every name,
\* qAdded counts the instances it asked to enqueue and qPopped the instances it
\* popped since the name was last absent from the queue.
Instances(rc) == IF IsFinite(rc) THEN rc[1] ELSE 1

q_add(r, c) ==
  LET name == Pool[r].name
      fresh == get_remaining_count(queue, name) = 0
      n == Instances(EffectiveCycles(r, c))
      added == add_request(queue, stats, r, c)
  IN /\ Len(queue) + n <= MaxQueue
     /\ fresh \/ qAdded[name] + n <= MaxQueue
     /\ queue' = added.queue
     /\ stats' = added.stats
     /\ qAdded' = [qAdded EXCEPT ![name] = IF fresh THEN n ELSE @ + n]
     /\ qPopped' = [qPopped EXCEPT ![name] = IF fresh THEN 0 ELSE @]
     /\ qLast' = <<r, c>>
     /\ UNCHANGED <<serial, tcp_socket, lock, polling_thread, stop_event, pc,
                    req, started, calls, batch, cycles, execLog, consec>>
     /\ UNCHANGED <<log_calls, discRun, cmVars, codecVars, lockVars, apiVars>>

q_pop ==
  /\ queue # <<>>
  /\ LET got == get_next_request(queue)
     IN /\ queue' = got.queue
        /\ qPopped' = [qPopped EXCEPT ![Pool[got.request].name] = @ + 1]
  /\ UNCHANGED <<qAdded, qLast>>
  /\ UNCHANGED <<serial, tcp_socket, lock, polling_thread, stop_event, stats, pc,
                 req, started, calls, batch, cycles, execLog, consec>>
  /\ UNCHANGED <<log_calls, discRun, cmVars, codecVars, lockVars, apiVars>>

QNext ==
  \/ \E r \in Requests, c \in CycleArgs : q_add(r, c)
  \/ q_pop

QSpec == Init /\ [][QNext]_vars

\* ---------------------------------------------------- ConnectionManager
\* self._lock is a threading.Lock: not reentrant, whoever holds it.
cm_call(t, method) ==
  /\ cm_pc[t] = "idle"
  /\ method \in {"connect", "disconnect", "is_connected", "send_and_receive"}
  /\ cm_pc' = [cm_pc EXCEPT ![t] = method \o "_wait"]
  /\ cm_ret' = [cm_ret EXCEPT ![t] = "caller"]
  /\ UNCHANGED <<cm_serial, cm_tcp, cm_is_connected, cm_lock>>
  /\ UNCHANGED <<handlerVars, harnessVars, codecVars, lockVars, apiVars>>

\* connect line 58: with self._lock
cm_connect_acquire(t) ==
  /\ cm_pc[t] = "connect_wait"
  /\ cm_lock = {}
  /\ cm_lock' = {t}
  /\ cm_pc' = [cm_pc EXCEPT ![t] = "connect_locked"]
  /\ UNCHANGED <<cm_serial, cm_tcp, cm_is_connected, cm_ret>>
  /\ UNCHANGED <<handlerVars, harnessVars, codecVars, lockVars, apiVars>>

\* connect line 60: self.disconnect(), called with the lock held
cm_connect_disconnect(t) ==
  /\ cm_pc[t] = "connect_locked"
  /\ cm_pc' = [cm_pc EXCEPT ![t] = "disconnect_wait"]
  /\ cm_ret' = [cm_ret EXCEPT ![t] = "connect"]
  /\ UNCHANGED <<cm_serial, cm_tcp, cm_is_connected, cm_lock>>
  /\ UNCHANGED <<handlerVars, harnessVars, codecVars, lockVars, apiVars>>

\* disconnect line 91: with self._lock
cm_disconnect_acquire(t) ==
  /\ cm_pc[t] = "disconnect_wait"
  /\ cm_lock = {}
  /\ cm_lock' = {t}
  /\ cm_pc' = [cm_pc EXCEPT ![t] = "disconnect_locked"]
  /\ UNCHANGED <<cm_serial, cm_tcp, cm_is_connected, cm_ret>>
  /\ UNCHANGED <<handlerVars, harnessVars, codecVars, lockVars, apiVars>>

\* disconnect lines 92-114: stop the watchdog, close and drop both handles,
\* clear the flag, release the lock, return to whoever called.
cm_disconnect_body(t) ==
  /\ cm_pc[t] = "disconnect_locked"
  /\ cm_serial' = "None"
  /\ cm_tcp' = "None"
  /\ cm_is_connected' = FALSE
  /\ cm_lock' = {}
  /\ cm_pc' = [cm_pc EXCEPT ![t] = IF cm_ret[t] = "connect" THEN "connect_open"
                                   ELSE "idle"]
  /\ UNCHANGED cm_ret
  /\ UNCHANGED <<handlerVars, harnessVars, codecVars, lockVars, apiVars>>

\* connect lines 62-88, after self.disconnect() has returned: open the
\* transport; True with the flag set, or False with the flag cleared.
cm_connect_open(t, kind, ok) ==
  /\ cm_pc[t] = "connect_open"
  /\ IF kind = "tcp"
     THEN /\ cm_tcp' = IF ok THEN "connected" ELSE "unconnected"
          /\ UNCHANGED cm_serial
     ELSE /\ cm_serial' = IF ok THEN "open" ELSE cm_serial
          /\ UNCHANGED cm_tcp
  /\ cm_is_connected' = ok
  /\ cm_lock' = {}
  /\ cm_pc' = [cm_pc EXCEPT ![t] = "idle"]
  /\ cm_ret' = [cm_ret EXCEPT ![t] = "caller"]
  /\ UNCHANGED <<handlerVars, harnessVars, codecVars, lockVars, apiVars>>

\* is_connected line 117: with self._lock
cm_is_connected_acquire(t) ==
  /\ cm_pc[t] = "is_connected_wait"
  /\ cm_lock = {}
  /\ cm_lock' = {t}
  /\ cm_pc' = [cm_pc EXCEPT ![t] = "is_connected_locked"]
  /\ UNCHANGED <<cm_serial, cm_tcp, cm_is_connected, cm_ret>>
  /\ UNCHANGED <<handlerVars, harnessVars, codecVars, lockVars, apiVars>>

\* is_connected lines 118-122: refresh the flag from the handle, return it.
cm_is_connected_body(t) ==
  /\ cm_pc[t] = "is_connected_locked"
  /\ cm_is_connected' = IF cm_serial # "None" THEN cm_serial = "open"
                        ELSE IF cm_tcp # "None" THEN TRUE
                        ELSE cm_is_connected
  /\ cm_lock' = {}
  /\ cm_pc' = [cm_pc EXCEPT ![t] = IF cm_ret[t] = "send_and_receive"
                                   THEN "send_and_receive_io" ELSE "idle"]
  /\ UNCHANGED <<cm_serial, cm_tcp, cm_ret>>
  /\ UNCHANGED <<handlerVars, harnessVars, codecVars, lockVars, apiVars>>

\* send_and_receive line 125: with self._lock
cm_send_and_receive_acquire(t) ==
  /\ cm_pc[t] = "send_and_receive_wait"
  /\ cm_lock = {}
  /\ cm_lock' = {t}
  /\ cm_pc' = [cm_pc EXCEPT ![t] = "send_and_receive_locked"]
  /\ UNCHANGED <<cm_serial, cm_tcp, cm_is_connected, cm_ret>>
  /\ UNCHANGED <<handlerVars, harnessVars, codecVars, lockVars, apiVars>>

\* send_and_receive line 126: self.is_connected(), called with the lock held
cm_send_and_receive_check(t) ==
  /\ cm_pc[t] = "send_and_receive_locked"
  /\ cm_pc' = [cm_pc EXCEPT ![t] = "is_connected_wait"]
  /\ cm_ret' = [cm_ret EXCEPT ![t] = "send_and_receive"]
  /\ UNCHANGED <<cm_serial, cm_tcp, cm_is_connected, cm_lock>>
  /\ UNCHANGED <<handlerVars, harnessVars, codecVars, lockVars, apiVars>>

\* The steps a client thread of the manager can take.  cm_connect_open is not
\* among them: the state "connect_open" needs cm_disconnect_acquire to fire
\* for a thread that holds the lock itself.
cm_step(t) ==
  \/ \E m \in {"connect", "disconnect", "is_connected", "send_and_receive"} :
       cm_call(t, m)
  \/ cm_connect_acquire(t)
  \/ cm_connect_disconnect(t)
  \/ cm_disconnect_acquire(t)
  \/ cm_disconnect_body(t)
  \/ cm_is_connected_acquire(t)
  \/ cm_is_connected_body(t)
  \/ cm_send_and_receive_acquire(t)
  \/ cm_send_and_receive_check(t)

CMNext == \E t \in CMThreads : cm_step(t)

CMSpec == Init /\ [][CMNext]_vars

\* ------------------------------------ frames: modbus_utils, _prepare_request,
\* ------------------------------------         _parse_response
\* Bitwise exclusive or of two naturals (Python's ^).
RECURSIVE Xor(_, _)
Xor(a, b) ==
  IF a = 0 THEN b
  ELSE IF b = 0 THEN a
  ELSE (((a % 2) + (b % 2)) % 2) + 2 * Xor(a \div 2, b \div 2)

\* (x >> 8) & 0xFF and x & 0xFF
Hi(x) == (x \div 256) % 256
Lo(x) == x % 256

\* generate_crc16_table, the inner loop: j rounds still to run on (crc, c).
\* 40961 is 0xA001.
RECURSIVE TableRounds(_, _, _)
TableRounds(crc, c, j) ==
  IF j = 0 THEN crc
  ELSE TableRounds(IF Xor(crc, c) % 2 = 1 THEN Xor(crc \div 2, 40961)
                   ELSE crc \div 2,
                   c \div 2, j - 1)

generate_crc16_table == [i \in 0..255 |-> TableRounds(0, i, 8)]

\* calculate_crc: crc = 0xFFFF, then for every byte
\* crc = (crc >> 8) ^ table[(crc ^ byte) & 0xFF]
RECURSIVE CrcLoop(_, _)
CrcLoop(crc, data) ==
  IF data = <<>> THEN crc
  ELSE CrcLoop(Xor(crc \div 256, generate_crc16_table[Xor(crc, Head(data)) % 256]),
               Tail(data))

calculate_crc(data) == CrcLoop(65535, data)

\* _prepare_request lines 185-192: the coil values packed eight to a byte, i
\* being the index of the next value and values the byte built so far.
RECURSIVE PackCoils(_, _, _)
PackCoils(d, i, values) ==
  IF i >= Len(d) THEN <<>>
  ELSE LET v == IF d[i + 1] # 0 THEN values + (2 ^ (i % 8)) ELSE values
       IN IF (i + 1) % 8 = 0 \/ i = Len(d) - 1
          THEN <<v>> \o PackCoils(d, i + 1, 0)
          ELSE PackCoils(d, i + 1, v)

\* _prepare_request lines 197-198: two bytes for every register value.
RECURSIVE PackRegisters(_)
PackRegisters(d) ==
  IF d = <<>> THEN <<>>
  ELSE <<Hi(Head(d)), Lo(Head(d))>> \o PackRegisters(Tail(d))

\* ModbusHandler._prepare_request.  request.data is a sequence, empty for None
\* and for [] alike (line 180 tests its truth).  The transport in use is not
\* looked at: the CRC is appended whatever it is.
_prepare_request(request) ==
  LET fn == request.function
      head == <<request.slave_id, fn,
                Hi(request.start_address), Lo(request.start_address)>>
      quantity == <<Hi(request.count), Lo(request.count)>>
      body ==
        IF fn \in {1, 2, 3, 4} THEN quantity
        ELSE IF fn \in {5, 6}
          THEN LET value == IF request.data # <<>> THEN request.data[1] ELSE 0
               IN <<Hi(value), Lo(value)>>
        ELSE IF fn = 15
          THEN quantity \o <<(request.count + 7) \div 8>>
                 \o PackCoils(request.data, 0, 0)
        ELSE IF fn = 16
          THEN quantity \o <<request.count * 2>> \o PackRegisters(request.data)
        ELSE <<>>
      data == head \o body
      crc == calculate_crc(data)
  IN data \o <<crc % 256, (crc \div 256) % 256>>

\* _parse_response lines 285-287: the eight bits of one byte, lowest first.
Bits(byte_val) == [bit \in 1..8 |-> (byte_val \div (2 ^ (bit - 1))) % 2 = 1]

RECURSIVE Coils(_)
Coils(bytes) ==
  IF bytes = <<>> THEN <<>> ELSE Bits(Head(bytes)) \o Coils(Tail(bytes))

\* _parse_response lines 293-295: for i in range(1, byte_count, 2), with data
\* indexed from 0 as in the source.
RECURSIVE Registers(_, _, _)
Registers(data, i, byte_count) ==
  IF i >= byte_count THEN <<>>
  ELSE (IF i + 1 < Len(data) THEN <<data[i + 1] * 256 + data[i + 2]>> ELSE <<>>)
         \o Registers(data, i + 2, byte_count)

Min(a, b) == IF a < b THEN a ELSE b

\* ModbusHandler._parse_response(response, function): the parsed values, or
\* raised.  function is the function code of the REQUEST; response[1], the
\* function byte of the response, and the two trailing CRC bytes are not
\* looked at.
_parse_response(response, function) ==
  IF Len(response) < 3
  THEN [raised |-> TRUE, values |-> <<>>]
  ELSE LET data == SubSeq(response, 3, Len(response))
           byte_count == data[1]
       IN IF function \in {1, 2}
          THEN [raised |-> FALSE,
                values |-> Coils(SubSeq(data, 2, Min(byte_count + 1, Len(data))))]
          ELSE IF function \in {3, 4}
          THEN [raised |-> FALSE, values |-> Registers(data, 1, byte_count)]
          ELSE IF function \in {5, 6, 15, 16}
          THEN IF Len(data) < 2
               THEN [raised |-> TRUE, values |-> <<>>]
               ELSE [raised |-> FALSE, values |-> <<data[1] * 256 + data[2]>>]
          ELSE [raised |-> TRUE, values |-> <<>>]

\* The requests put through the codec.
FrameRequests ==
  [slave_id : {1, 17}, function : {1, 2, 3, 4, 5, 6, 15, 16},
   start_address : {16, 4660}, count : {1, 4},
   data : {<<>>, <<0>>, <<1>>, <<65280>>}]

WithCrc(bytes) ==
  LET crc == calculate_crc(bytes) IN bytes \o <<crc % 256, (crc \div 256) % 256>>

\* What a slave answers to a request: the data bytes all equal to fill for a
\* read, the echo of the first six bytes for a write.
NormalResponse(request, fill) ==
  LET fn == request.function
      n == IF fn \in {1, 2} THEN (request.count + 7) \div 8 ELSE 2 * request.count
  IN WithCrc(IF fn \in {1, 2, 3, 4}
             THEN <<request.slave_id, fn, n>> \o Repeat(fill, n)
             ELSE SubSeq(_prepare_request(request), 1, 6))

\* A Modbus exception response: the function code with its high bit set, then
\* the exception code.
ExceptionResponse(request, code) ==
  WithCrc(<<request.slave_id, request.function + 128, code>>)

\* bytes with bit k (counted from 0, lowest bit of the first byte) flipped
FlipBit(bytes, k) ==
  [bytes EXCEPT ![(k \div 8) + 1] = Xor(@, 2 ^ (k % 8))]

\* What _send_and_receive may hand back for a request (lines 213-222): a
\* normal response, an exception response, either of them with one bit
\* flipped on the way, or the first two bytes only.
Responses(request) ==
  LET sent == {NormalResponse(request, 18), ExceptionResponse(request, 2)}
  IN sent
       \cup UNION {{FlipBit(b, k) : k \in 0..(8 * Len(b) - 1)} : b \in sent}
       \cup {SubSeq(b, 1, 2) : b \in sent}

\* send_request line 93: data = self._prepare_request(request), for a handler
\* connected over kind.
f_prepare(kind, request) ==
  /\ f_frame = <<>>
  /\ f_kind' = kind
  /\ f_req' = request
  /\ f_frame' = _prepare_request(request)
  /\ UNCHANGED <<f_resp, f_result>>
  /\ UNCHANGED <<handlerVars, harnessVars, cmVars, lockVars, apiVars>>

\* send_request line 94: response = self._send_and_receive(data)
f_receive ==
  /\ f_frame # <<>>
  /\ f_resp = <<>>
  /\ \E response \in Responses(f_req) : f_resp' = response
  /\ UNCHANGED <<f_kind, f_req, f_frame, f_result>>
  /\ UNCHANGED <<handlerVars, harnessVars, cmVars, lockVars, apiVars>>

\* send_request lines 111-152: parse the response; the outcome is "ok" when
\* _parse_response returned and "parse_error" when it raised.
f_parse ==
  /\ f_resp # <<>>
  /\ f_result = NoResult
  /\ LET parsed == _parse_response(f_resp, f_req.function)
     IN f_result' = [outcome |-> IF parsed.raised THEN "parse_error" ELSE "ok",
                     values |-> parsed.values]
  /\ UNCHANGED <<f_kind, f_req, f_frame, f_resp>>
  /\ UNCHANGED <<handlerVars, harnessVars, cmVars, lockVars, apiVars>>

FNext ==
  \/ \E kind \in {"serial", "tcp"}, request \in FrameRequests :
       f_prepare(kind, request)
  \/ f_receive
  \/ f_parse

FSpec == Init /\ [][FNext]_vars

\* ------------------------------------ the handler's lock and the queue's lock
\* Threads that call send_request and the RequestQueue methods, reduced to the
\* locks they take: ModbusHandler._lock (modbus_handler.py:84) and
\* RequestQueue._lock (request_queue.py:35, 48, 54, 64, 68).  Both are
\* threading.Lock objects.
QueueMethods == {"add_request", "get_next_request", "clear", "is_empty",
                 "get_remaining_count"}

l_call(t, method) ==
  /\ l_pc[t] = "idle"
  /\ method \in QueueMethods \cup {"send_request"}
  /\ l_pc' = [l_pc EXCEPT ![t] = IF method = "send_request" THEN "send_wait"
                                 ELSE "queue_wait"]
  /\ UNCHANGED <<l_tlock, l_qlock>>
  /\ UNCHANGED <<handlerVars, harnessVars, cmVars, codecVars, apiVars>>

\* send_request line 84: with self._lock
l_send_acquire(t) ==
  /\ l_pc[t] = "send_wait"
  /\ l_tlock = {}
  /\ l_tlock' = {t}
  /\ l_pc' = [l_pc EXCEPT ![t] = "send_locked"]
  /\ UNCHANGED l_qlock
  /\ UNCHANGED <<handlerVars, harnessVars, cmVars, codecVars, apiVars>>

\* send_request lines 86-90: not connected, return (the lock is released).
l_send_not_connected(t) ==
  /\ l_pc[t] = "send_locked"
  /\ l_tlock' = {}
  /\ l_pc' = [l_pc EXCEPT ![t] = "idle"]
  /\ UNCHANGED l_qlock
  /\ UNCHANGED <<handlerVars, harnessVars, cmVars, codecVars, apiVars>>

\* send_request lines 92-115: the exchange, up to the call of
\* self.request_queue.get_remaining_count (lines 97, 115, 139 or 156).
l_send_transaction(t) ==
  /\ l_pc[t] = "send_locked"
  /\ l_pc' = [l_pc EXCEPT ![t] = "remaining_wait"]
  /\ UNCHANGED <<l_tlock, l_qlock>>
  /\ UNCHANGED <<handlerVars, harnessVars, cmVars, codecVars, apiVars>>

\* get_remaining_count line 68, called from send_request: with self._lock
l_remaining_acquire(t) ==
  /\ l_pc[t] \in {"remaining_wait", "remaining2_wait"}
  /\ l_qlock = {}
  /\ l_qlock' = {t}
  /\ l_pc' = [l_pc EXCEPT ![t] = IF @ = "remaining_wait" THEN "remaining_locked"
                                 ELSE "remaining2_locked"]
  /\ UNCHANGED l_tlock
  /\ UNCHANGED <<handlerVars, harnessVars, cmVars, codecVars, apiVars>>

\* get_remaining_count returns to send_request.  After the count of the
\* success path (line 115) the logger may raise (lines 132-133), and the
\* handler of that exception counts once more (line 139).
l_remaining_release(t, raises) ==
  /\ \/ l_pc[t] = "remaining_locked"
     \/ l_pc[t] = "remaining2_locked" /\ ~raises
  /\ l_qlock' = {}
  /\ l_pc' = [l_pc EXCEPT ![t] = IF raises THEN "remaining2_wait"
                                 ELSE "send_return"]
  /\ UNCHANGED l_tlock
  /\ UNCHANGED <<handlerVars, harnessVars, cmVars, codecVars, apiVars>>

\* send_request returns: the end of the with block of line 84.
l_send_release(t) ==
  /\ l_pc[t] = "send_return"
  /\ l_tlock' = {}
  /\ l_pc' = [l_pc EXCEPT ![t] = "idle"]
  /\ UNCHANGED l_qlock
  /\ UNCHANGED <<handlerVars, harnessVars, cmVars, codecVars, apiVars>>

\* a RequestQueue method: with self._lock
l_queue_acquire(t) ==
  /\ l_pc[t] = "queue_wait"
  /\ l_qlock = {}
  /\ l_qlock' = {t}
  /\ l_pc' = [l_pc EXCEPT ![t] = "queue_locked"]
  /\ UNCHANGED l_tlock
  /\ UNCHANGED <<handlerVars, harnessVars, cmVars, codecVars, apiVars>>

\* A RequestQueue method that calls send_request with the queue's lock held.
l_queue_calls_send(t) ==
  /\ l_pc[t] = "queue_locked"
  /\ l_pc' = [l_pc EXCEPT ![t] = "send_wait"]
  /\ UNCHANGED <<l_tlock, l_qlock>>
  /\ UNCHANGED <<handlerVars, harnessVars, cmVars, codecVars, apiVars>>

\* the body of the RequestQueue method, which calls nothing of the handler,
\* and the end of its with block
l_queue_release(t) ==
  /\ l_pc[t] = "queue_locked"
  /\ l_qlock' = {}
  /\ l_pc' = [l_pc EXCEPT ![t] = "idle"]
  /\ UNCHANGED l_tlock
  /\ UNCHANGED <<handlerVars, harnessVars, cmVars, codecVars, apiVars>>

\* what a thread inside a call can do next
l_step(t) ==
  \/ l_send_acquire(t)
  \/ l_send_not_connected(t)
  \/ l_send_transaction(t)
  \/ l_remaining_acquire(t)
  \/ \E raises \in BOOLEAN : l_remaining_release(t, raises)
  \/ l_send_release(t)
  \/ l_queue_acquire(t)
  \/ l_queue_release(t)

LNext ==
  \/ \E t \in LockThreads, method \in QueueMethods \cup {"send_request"} :
       l_call(t, method)
  \/ \E t \in LockThreads : l_step(t)

\* Every thread inside a call keeps being scheduled, and a thread that finds a
\* lock free again and again gets it in the end.
LSpec == Init /\ [][LNext]_vars /\ \A t \in LockThreads : SF_vars(l_step(t))

\* ------------------------------------------------- main.py: the endpoints
\* The endpoints are coroutines that never await: the event loop runs one at
\* a time, and one that blocks in a join blocks the others.  The global
\* polling_thread is the thread that RUNS modbus_handler.start_polling (lines
\* 144-148), not the polling worker that start_polling spawns.

\* /connect (lines 65-84): modbus_handler.connect(settings)
api_connect(kind, ok) ==
  /\ api_pc = "idle"
  /\ calls < MaxApiCalls
  /\ connect(kind, ok)

\* /start-polling, lines 119-150 up to the first blocking call.  With
\* polling_thread alive, modbus_handler.stop_polling() begins (its line 269
\* sets the stop event); otherwise the requests are built, is_polling is set
\* and a thread is started to run modbus_handler.start_polling.
api_start_polling ==
  /\ api_pc = "idle"
  /\ IF api_thread = "alive"
     THEN /\ started + 1 < MaxStarts
          /\ stop_event' = TRUE
          /\ api_pc' = "start_join_worker"
          /\ UNCHANGED <<api_thread, is_polling>>
     ELSE /\ started < MaxStarts
          /\ is_polling' = TRUE
          /\ api_thread' = "alive"
          /\ UNCHANGED <<api_pc, stop_event>>
  /\ UNCHANGED <<serial, tcp_socket, lock, polling_thread, queue, stats, pc, req,
                 started, calls, batch, cycles, execLog, consec, log_calls,
                 discRun>>
  /\ UNCHANGED <<harnessVars, cmVars, codecVars, lockVars>>

\* /stop-polling, lines 155-162 up to the first blocking call: with
\* polling_thread alive, modbus_handler.stop_polling() begins; otherwise
\* is_polling is cleared and success returned.
api_stop_polling ==
  /\ api_pc = "idle"
  /\ IF api_thread = "alive"
     THEN /\ stop_event' = TRUE
          /\ api_pc' = "stop_join_worker"
          /\ UNCHANGED is_polling
     ELSE /\ is_polling' = FALSE
          /\ UNCHANGED <<api_pc, stop_event>>
  /\ UNCHANGED api_thread
  /\ UNCHANGED <<serial, tcp_socket, lock, polling_thread, queue, stats, pc, req,
                 started, calls, batch, cycles, execLog, consec, log_calls,
                 discRun>>
  /\ UNCHANGED <<harnessVars, cmVars, codecVars, lockVars>>

\* modbus_handler.stop_polling lines 270-272, called by an endpoint: join the
\* handler's _polling_thread, clear the queue, return to the endpoint.
api_join_worker ==
  /\ api_pc \in {"start_join_worker", "stop_join_worker"}
  /\ polling_thread # 0 => ~Alive(polling_thread)
  /\ queue' = clear(queue)
  /\ api_pc' = IF api_pc = "start_join_worker" THEN "start_join_thread"
               ELSE "stop_join_thread"
  /\ UNCHANGED <<api_thread, is_polling>>
  /\ UNCHANGED <<serial, tcp_socket, lock, polling_thread, stop_event, stats,
                 pc, req, started, calls, batch, cycles, execLog, consec,
                 log_calls, discRun>>
  /\ UNCHANGED <<harnessVars, cmVars, codecVars, lockVars>>

\* polling_thread.join() returns (lines 124, 160) and the endpoint runs to its
\* end: /start-polling starts its thread, /stop-polling clears is_polling.
api_join_thread ==
  /\ api_pc \in {"start_join_thread", "stop_join_thread"}
  /\ api_thread = "finished"
  /\ api_pc' = "idle"
  /\ IF api_pc = "start_join_thread"
     THEN is_polling' = TRUE /\ api_thread' = "alive"
     ELSE is_polling' = FALSE /\ UNCHANGED api_thread
  /\ UNCHANGED <<serial, tcp_socket, lock, polling_thread, queue, stop_event,
                 stats, pc, req, started, calls, batch, cycles, execLog,
                 consec, log_calls, discRun>>
  /\ UNCHANGED <<harnessVars, cmVars, codecVars, lockVars>>

\* The thread started by /start-polling runs
\* modbus_handler.start_polling(requests, interval, cycles) and ends.  The
\* arguments, fixed when the endpoint built them, are drawn here.
api_thread_run(b, c) ==
  /\ api_thread = "alive"
  /\ api_thread' = "finished"
  /\ LET filled == AddAll(<<>>, stats, b, c)
         w == started + 1
     IN /\ queue' = filled.queue
        /\ stats' = filled.stats
        /\ stop_event' = FALSE
        /\ polling_thread' = w
        /\ started' = w
        /\ pc' = [pc EXCEPT ![w] = "loop"]
  /\ batch' = b
  /\ cycles' = c
  /\ execLog' = <<>>
  /\ consec' = 0
  /\ UNCHANGED <<serial, tcp_socket, lock, req, calls, log_calls, discRun>>
  /\ UNCHANGED <<api_pc, is_polling>>
  /\ UNCHANGED <<harnessVars, cmVars, codecVars, lockVars>>

\* outcomes of a transaction drawn while the endpoints are exercised
ApiOutcomes == {"ok", "timeout"}

ApiNext ==
  \/ \E kind \in {"serial", "tcp"}, ok \in BOOLEAN : api_connect(kind, ok)
  \/ api_start_polling
  \/ api_stop_polling
  \/ api_join_worker
  \/ api_join_thread
  \/ \E b \in Batches, c \in CycleArgs : api_thread_run(b, c)
  \/ \E w \in Workers : send_request_enter(w)
  \/ \E w \in Workers, o \in ApiOutcomes : send_request_finish(w, o)
  \/ \E w \in Workers : worker_loop(w)
  \/ \E w \in Workers : worker_next(w)
  \/ \E w \in Workers : worker_requeue(w)
  \/ \E w \in Workers : worker_wait(w)
  \/ \E w \in Workers : worker_wake(w)

ApiSpec == Init /\ [][ApiNext]_vars

\* ------------------------------------------------------------ properties

\* C1: circuit breaker of the polling worker: once Threshold consecutive
\* transactions of the session have failed, the session stops and no worker
\* executes a further transaction.  (Stated of a handler on which
\* start_polling was called once, so that one worker makes every polling
\* transaction.)
C1_CircuitBreaker ==
  (started = 1 /\ consec >= Threshold) => \A w \in Workers : pc[w] # "inflight"

\* C2: at the moment stop_polling returns, no polling worker started by the
\* handler is still running and the request queue is empty.
C2_StopLeavesNoWorker ==
  [][stop_polling_return =>
       /\ \A w \in Workers : pc'[w] \in {"unborn", "exited"}
       /\ queue' = <<>>]_vars

\* C3: at most one polling worker is active per handler at any instant.
C3_SingleWorker == Cardinality({w \in Workers : Alive(w)}) <= 1

\* C4: finite queue accounting: a request added with effective cycle count C
\* leaves stats.total = C, and get_remaining_count(name) is the number of
\* instances enqueued under the name minus the number of pops of it (C - k
\* after k pops of a name added once with count C).
C4_QueueAccounting ==
  /\ \A n \in Names :
       /\ qPopped[n] <= qAdded[n]
       /\ get_remaining_count(queue, n) = qAdded[n] - qPopped[n]
  /\ qLast # <<>> =>
       LET rc == EffectiveCycles(qLast[1], qLast[2])
       IN IsFinite(rc) => stats[StatsRef(qLast[1])].total = rc[1]

\* A name added once with count 2 and popped twice: nothing remains.
C4_Witness ==
  /\ qLast = <<"r1", Some(2)>>
  /\ qAdded["A"] = 2
  /\ qPopped["A"] = 2
  /\ get_remaining_count(queue, "A") = 0

\* A request is in circulation when an instance of it waits in the queue or a
\* running worker holds one that it has not yet passed the re-enqueue point for.
InCirculation(r) ==
  \/ get_remaining_count(queue, Pool[r].name) >= 1
  \/ \E w \in Workers : req[w] = r /\ pc[w] \in {"send", "inflight", "requeue"}

\* C5: infinite polling never starves: in a session that is not stopped, a
\* request whose effective cycle count is absent or 0 always comes back to the
\* queue after it has been executed.  (Stated of the first session of a
\* handler, whose worker is the only one.)
C5_InfiniteNeverStarves ==
  (started = 1 /\ ~stop_event) =>
     \A i \in DOMAIN batch :
        ~IsFinite(EffectiveCycles(batch[i], cycles)) => InCirculation(batch[i])

\* C6: the requests of one polling cycle are executed in ascending order of
\* their order key, whatever their position in the batch.  (execLog holds the
\* first Len(batch) draws of the session; stated of the first session of a
\* handler, whose worker is the only one.)
C6_AscendingOrder ==
  started = 1 =>
    \A i, j \in DOMAIN execLog :
       i < j => Pool[execLog[i]].order <= Pool[execLog[j]].order

Counters == {"completed", "timeouts", "errors"}

ExactlyOneIncrement(old, new) ==
  \E f \in Counters :
     /\ new[f] = old[f] + 1
     /\ \A g \in Counters \ {f} : new[g] = old[g]

\* C7: a send_request made while connected increments exactly one of
\* completed, timeouts, errors by one and leaves the other two alone; one made
\* while not connected changes no counter.
C7_OneCounterPerCall ==
  [][\A t \in Threads :
       /\ (pc[t] = "inflight" /\ pc'[t] # "inflight") =>
             ExactlyOneIncrement(stats[StatsRef(req[t])], stats'[StatsRef(req[t])])
       /\ (pc[t] = "send" /\ pc'[t] # "send" /\ ~Connected) => stats' = stats]_vars

\* C8: transport mutual exclusion: at most one transaction is in flight, and
\* while one is between sending its frame and receiving its response no connect
\* or disconnect closes or replaces a transport handle.  (The steps looked at
\* are those that leave the transaction in flight: its own last step may find
\* the socket broken.)
C8_TransportMutualExclusion ==
  [][(\E t \in Threads : pc[t] = "inflight" /\ pc'[t] = "inflight") =>
       /\ Cardinality({t \in Threads : pc[t] = "inflight"}) = 1
       /\ serial' = serial
       /\ tcp_socket' = tcp_socket]_vars

\* C9: disconnect stops polling first: when disconnect closes the transport,
\* every polling worker has exited.  (The step that sets tcp_socket to None is
\* disconnect's, line 81, and no other method's.)
C9_DisconnectStopsPolling ==
  [][(tcp_socket # "None" /\ tcp_socket' = "None") =>
       \A w \in Workers : ~Alive(w)]_vars

\* A thread that is executing ConnectionManager.connect.
InConnect(t) ==
  \/ cm_pc[t] \in {"connect_wait", "connect_locked", "connect_open"}
  \/ cm_ret[t] = "connect" /\ cm_pc[t] \in {"disconnect_wait", "disconnect_locked"}

\* C10: ConnectionManager.connect always completes: a thread inside connect
\* that holds the manager's lock (so that no other thread can be in its way)
\* can always take its next step.
C10_ConnectCompletes ==
  \A t \in CMThreads : (InConnect(t) /\ t \in cm_lock) => ENABLED cm_step(t)

\* C11: a failed connect leaves the handler disconnected: while the only handle
\* there is is the socket of a connect that failed, a send_request returns
\* "Not connected" at once, without a transaction and without counting one.
C11_FailedConnectDisconnected ==
  [][\A t \in Threads :
       (tcp_socket = "unconnected" /\ serial # "open"
          /\ pc[t] = "send" /\ pc'[t] # "send") =>
            pc'[t] = AfterSend(t) /\ stats' = stats]_vars

\* C12: disconnect is idempotent: every disconnect leaves no open transport,
\* and one that follows another disconnect, or that is made before any connect,
\* changes neither handle.
C12_DisconnectIdempotent ==
  [][discRun' = discRun + 1 =>
       /\ ~Connected'
       /\ serial' # "open" /\ tcp_socket' = "None"
       /\ (discRun >= 1 \/ (serial = "None" /\ tcp_socket = "None")) =>
             (serial' = serial /\ tcp_socket' = tcp_socket)]_vars

\* Reached by connect("serial"), disconnect, disconnect.
C12_Witness == discRun = 2 /\ serial = "closed" /\ tcp_socket = "None"

\* C13: single transport: an open serial port and a connected TCP socket are
\* never held at the same time.
C13_SingleTransport == ~(serial = "open" /\ tcp_socket = "connected")

\* C14: after an I/O error on the socket no transaction is attempted until a
\* connect replaces the socket.
C14_IOErrorMarksNotLive ==
  tcp_socket = "broken" => \A t \in Threads : pc[t] # "inflight"

\* C15: RequestStats are not shared: a transaction for one request leaves the
\* counters of every other request as they were.
C15_StatsNotShared ==
  [][\A t \in Threads :
       (pc[t] = "inflight" /\ pc'[t] # "inflight" /\ TransportLive) =>
          \A r \in Requests \ {req[t]} :
             stats'[StatsRef(r)] = stats[StatsRef(r)]]_vars

\* C16: the exchange log is written exactly once for every transaction that
\* ends as completed or as erred.
C16_LoggedOncePerOutcome ==
  [][\A t \in Threads :
       LET old == stats[StatsRef(req[t])]
           new == stats'[StatsRef(req[t])]
       IN (pc[t] = "inflight" /\ pc'[t] # "inflight"
             /\ (new.completed # old.completed \/ new.errors # old.errors)) =>
                log_calls' = log_calls + 1]_vars

\* CRC-16/MODBUS computed bit by bit: the register starts at 0xFFFF (65535),
\* every byte is xored into it and followed by eight shifts to the right, each
\* xoring the polynomial 0xA001 in when the bit shifted out was 1.  Xoring
\* 0xA001 in is inverting bits 0, 13 and 15.
InvertBit(x, k) ==
  IF (x \div (2 ^ k)) % 2 = 1 THEN x - (2 ^ k) ELSE x + (2 ^ k)

Crc16Shift(crc) ==
  IF crc % 2 = 1
  THEN InvertBit(InvertBit(InvertBit(crc \div 2, 0), 13), 15)
  ELSE crc \div 2

Crc16Modbus(bytes) ==
  LET shift[crc \in 0..65535] == Crc16Shift(crc)
      reg[i \in 0..Len(bytes)] ==
        IF i = 0 THEN 65535
        ELSE shift[shift[shift[shift[
               shift[shift[shift[shift[Xor(reg[i - 1], bytes[i])]]]]]]]]
  IN reg[Len(bytes)]

\* The first six bytes of every frame of a read request.
ReadPdu(request) ==
  <<request.slave_id, request.function,
    Hi(request.start_address), Lo(request.start_address),
    Hi(request.count), Lo(request.count)>>

\* The RTU half of C17: the frame of a read request is its six bytes followed
\* by their CRC-16/MODBUS, low byte first.
RtuFrameOk ==
  LET crc == Crc16Modbus(ReadPdu(f_req))
  IN f_frame = ReadPdu(f_req) \o <<crc % 256, crc \div 256>>

\* The TCP half of C17: a six-byte header with protocol id 0 and length 6,
\* then the six bytes, and no CRC.
TcpFrameOk ==
  /\ Len(f_frame) = 12
  /\ SubSeq(f_frame, 3, 6) = <<0, 0, 0, 6>>
  /\ SubSeq(f_frame, 7, 12) = ReadPdu(f_req)

\* C17: the framing of a built read request (functions 1-4) is that of the
\* transport in use: RTU with a CRC trailer on a serial connection, a TCP
\* header and no CRC on a TCP connection.
C17_FramingByTransport ==
  (f_frame # <<>> /\ f_req.function \in 1..4) =>
     IF f_kind = "tcp" THEN TcpFrameOk ELSE RtuFrameOk

\* C18: in the frame of a write-single-coil request (function 5) the value
\* field is FF 00 for a truthy value and 00 00 for a falsy or missing one.
C18_SingleCoilMapping ==
  (f_frame # <<>> /\ f_req.function = 5) =>
     <<f_frame[5], f_frame[6]>> =
        IF f_req.data # <<>> /\ f_req.data[1] # 0 THEN <<255, 0>> ELSE <<0, 0>>

\* The two last bytes of a response are the CRC of the bytes before them.
CrcMatches(bytes) ==
  /\ Len(bytes) >= 3
  /\ LET n == Len(bytes)
         crc == calculate_crc(SubSeq(bytes, 1, n - 2))
     IN bytes[n - 1] = crc % 256 /\ bytes[n] = crc \div 256

\* C19: an RTU response whose trailing CRC does not match is rejected: the
\* transaction ends as a parse error (the outcome that counts errors and not
\* completed) and no value is extracted.  (Stated of responses that carry the
\* function code of the request, which leaves exception responses aside.)
C19_CorruptedResponseRejected ==
  (f_result # NoResult /\ f_kind = "serial" /\ ~CrcMatches(f_resp)
     /\ Len(f_resp) >= 3 /\ f_resp[2] = f_req.function) =>
     (f_result.outcome = "parse_error" /\ f_result.values = <<>>)

\* C20: a response whose function byte has its high bit set is an exception
\* response: the transaction ends as a parse error, never as parsed values.
\* (Stated of responses that arrived intact.)
C20_ExceptionResponseIsError ==
  (f_result # NoResult /\ CrcMatches(f_resp) /\ f_resp[2] >= 128) =>
     f_result.outcome = "parse_error"

\* C21: the worker puts an instance back after executing it exactly when the
\* effective cycle count of its request is infinite (absent or 0): one
\* instance for an infinite request, nothing for a finite one.  (Stated of a
\* handler on which start_polling was called once.)
C21_RequeueIffInfinite ==
  [][\A w \in Workers :
       (started = 1 /\ pc[w] = "requeue" /\ pc'[w] # "requeue") =>
          queue' = IF IsFinite(EffectiveCycles(req[w], cycles))
                   THEN queue ELSE Append(queue, req[w])]_vars

\* C22: stop responsiveness: once the stop flag of the session is set, the
\* worker begins no wait.  (Stated of a handler on which start_polling was
\* called once, whose stop flag is the one its worker reads.)
C22_NoWaitAfterStop ==
  [][\A w \in Workers :
       (started = 1 /\ stop_event /\ pc[w] # "sleep") => pc'[w] # "sleep"]_vars

\* C23: a failed transaction never ends the session: whatever its outcome, a
\* transaction of a worker ends with a counter incremented and the worker on
\* its way to the next instance, and a worker leaves its loop only when the
\* stop signal is set.
C23_FailuresDoNotEndSession ==
  [][\A w \in Workers :
       /\ (pc[w] = "inflight" /\ pc'[w] # "inflight") =>
             (pc'[w] = "requeue" /\ TxCount' > TxCount)
       /\ (Alive(w) /\ ~Alive(w)') => stop_event]_vars

\* The worker of the only session is in a transaction after two failed ones
\* in a row.
C23_Witness ==
  started = 1 /\ ~stop_event /\ consec = 2 /\ pc[1] = "inflight"

\* The queue's lock is held only inside a RequestQueue method, never by a
\* thread that waits for the handler's lock; the handler's lock is held only
\* inside send_request.
LockOrder ==
  /\ \A t \in l_qlock :
        l_pc[t] \in {"remaining_locked", "remaining2_locked", "queue_locked"}
  /\ \A t \in l_tlock :
        l_pc[t] \in {"send_locked", "remaining_wait", "remaining_locked",
                     "remaining2_wait", "remaining2_locked", "send_return"}

\* a thread waits for a lock that another thread holds
LockWaiting(t) ==
  \/ l_pc[t] = "send_wait" /\ l_tlock # {}
  \/ l_pc[t] \in {"remaining_wait", "remaining2_wait", "queue_wait"}
       /\ l_qlock # {}

C25_StatusMatchesWorker ==
  (api_pc = "idle" /\ started >= 1 /\ ~is_polling) =>
     \A w \in Workers : ~Alive(w)
====
